---------------------------- MODULE Spec2Model ----------------------------
(***************************************************************************)
(* A model of webhook.py, the rq job handler of the Door43 catalog.        *)
(*                                                                         *)
(*   SpecFetch   download_and_unzip_repo: the retry loop of the fetcher    *)
(*   SpecDetect  check_for_forthcoming_pushes_in_queue on payloads and     *)
(*               queue snapshots                                           *)
(*   Spec        job(): the wrapper around process_webhook_job             *)
(*                                                                         *)
(* A Python str is a sequence of tokens: "/" and the pieces between the    *)
(* slashes are tokens, so that split and replace work on it as they do on  *)
(* characters. None and "the dict has no such key" (Absent) are two        *)
(* sequences that no str equals. An exception is a record with its class.  *)
(***************************************************************************)
EXTENDS Integers, Sequences, FiniteSets, TLC

None == <<"<None>">>
Absent == <<"<absent>">>

\* The str made of one token.
S(token) == <<token>>

\* bool(v) of a str or None.
Truthy(v) == v # None /\ v # <<>>

Min(a, b) == IF a < b THEN a ELSE b

VARIABLES
    \* ---- download_and_unzip_repo
    fpc,              \* "idle" | "loop" | "returned" | "raised" | "done"
    prefix,           \* rq_settings.prefix: "" or "dev-"
    try_number,       \* the local try_number
    outcomes,         \* what each call of download_file/unzip did, in order
    sleeps,           \* the arguments of the sleep() calls, in order
    zip_file,         \* os.path.isfile(repo_zip_file)
    stale_seen,       \* a download began while repo_zip_file existed
    fetch_exc,        \* the exception that left the function
    \* ---- download_repos_files_into_temp_folder
    fetched_repo_name,     \* its argument repo_name
    listing,          \* what temp_folderpath holds: entries [name, isDir]
    returned_folderpath,   \* what it returned
    \* ---- job() and check_for_forthcoming_pushes_in_queue
    jpc,                   \* where job() is
    queued_json_payload,   \* the argument of job()
    our_queue,             \* the jobs of Queue(webhook_queue_name), in its order
    abort_duplicate_flag,
    job_descriptive_name,
    debug_mode_flag,       \* rq_settings.debug_mode_flag
    len_our_queue,         \* line 353
    stats,                 \* the counters and timers of stats_client, since the worker began
    events,                \* the calls job() has made on the loggers and stats_client, in order
    locals,                \* the locals of process_webhook_job when it was left
    handled,               \* the calls of handle_catalog_release by this job()
    job_exc,               \* the exception that left job() for rq
    jobs_run,              \* the number of calls of job() by rq
    failed_queue,          \* the number of jobs rq has put in its failed queue
    \* ---- several workers on one queue
    rq_jobs,               \* the jobs enqueued so far, in the order of their enqueueing
    rq_queue,              \* Queue(webhook_queue_name): the indexes in rq_jobs of the waiting jobs
    workers                \* where each worker's job() is, and its locals

fetch_vars == <<fpc, prefix, try_number, outcomes, sleeps, zip_file, stale_seen, fetch_exc,
                fetched_repo_name, listing, returned_folderpath>>

detect_vars == <<queued_json_payload, our_queue, abort_duplicate_flag, job_descriptive_name>>

wrapper_vars == <<debug_mode_flag, len_our_queue, stats, events, locals, handled, job_exc,
                  jobs_run, failed_queue>>

job_vars == <<jpc, detect_vars, wrapper_vars>>

pool_vars == <<rq_jobs, rq_queue, workers>>

vars == <<fetch_vars, job_vars, pool_vars>>

-----------------------------------------------------------------------------
(* download_and_unzip_repo                                                 *)

MAX_TRIES == 4
SECONDS_BETWEEN_TRIES == 5

Prefixes == {"", "dev-"}

NoFetchException == [class |-> "none", try |-> 0]

NoException == [class |-> "none", line |-> 0]

NoStats == [attempted |-> 0, completed |-> 0, duration |-> 0]

\* The number of workers on the queue, and of the jobs enqueued over time.
NumWorkers == 2
MaxEnqueued == 3

\* A worker between two jobs.
IdleWorker == [pc |-> "idle", job |-> 0, len_our_queue |-> 0]

\* No job was enqueued yet and every worker waits.
PoolIdle ==
    /\ rq_jobs = <<>>
    /\ rq_queue = <<>>
    /\ workers = [w \in 1..NumWorkers |-> IdleWorker]

\* job() has not been called yet.
WrapperIdle ==
    /\ len_our_queue = 0
    /\ stats = NoStats
    /\ events = <<>>
    /\ locals = None
    /\ handled = <<>>
    /\ job_exc = NoException
    /\ jobs_run = 0
    /\ failed_queue = 0

\* Line 140 with the bound of line 149, and with a bound one short.
HTTPErrorRetry_FullBudget(n) == n < MAX_TRIES
HTTPErrorRetry_OneShort(n) == n < MAX_TRIES - 2

\* Line 140: another try after an HTTPError?
HTTPErrorRetry(n) == n < MAX_TRIES - 1

\* Line 149 with the bound of line 140.
BadZipFileRetry_LessTries(n) == n < MAX_TRIES - 1

\* Line 149 with a bound that lets a fifth try happen.
BadZipFileRetry_OneMore(n) == n < MAX_TRIES + 1

\* Line 149: another try after a BadZipFile?
BadZipFileRetry(n) == n < MAX_TRIES

\* Lines 122-123 without the os.remove: the file stays if it was there.
RemoveStale_Keeps(exists) == exists

\* Lines 122-123: a fresh copy is wanted. Does repo_zip_file exist when
\* download_file is called?
RemoveStale(exists) == FALSE

\* The repo_name arguments: Gitea keeps the case the owner typed.
RepoNames == { <<"Proj">>, <<"proj">> }

\* str.lower() on the tokens of the names used here.
LowerToken(t) == IF t = "Proj" THEN "proj" ELSE t

Lower(s) == [i \in DOMAIN s |-> LowerToken(s[i])]

\* os.path.join(a, b) for a relative b.
Join(a, b) == a \o <<"/">> \o b

\* The directory that mkdtemp made (line 166).
temp_folderpath == <<"temp_folderpath">>

\* What unzip can leave in repo_dir: each name is absent, a file or a folder.
EntryNames == {"proj", "Proj", "other"}

Listings ==
    { { [name |-> n, isDir |-> (kind[n] = "folder")] : n \in { m \in EntryNames : kind[m] # "absent" } } :
        kind \in [EntryNames -> {"absent", "file", "folder"}] }

\* os.path.isdir(path) for a path directly under folderpath.
IsDir(folderpath, entries, path) ==
    \E e \in entries : e.isDir /\ Join(folderpath, <<e.name>>) = path

\* Lines 175-182: the folders among os.listdir(temp_folderpath).
PossibleFolderpaths(folderpath, entries) ==
    { Join(folderpath, <<e.name>>) : e \in { x \in entries : x.isDir } }

\* Lines 168-189 with repo_name as it is, not lowered.
SelectRepoFolder_NoLower(folderpath, name, entries) ==
    IF IsDir(folderpath, entries, Join(folderpath, name))
    THEN Join(folderpath, name)
    ELSE IF Cardinality(PossibleFolderpaths(folderpath, entries)) = 1
         THEN CHOOSE path \in PossibleFolderpaths(folderpath, entries) : TRUE
         ELSE folderpath

\* Lines 168-189: what download_repos_files_into_temp_folder returns.
SelectRepoFolder(folderpath, name, entries) ==
    LET repo_folderpath == Join(folderpath, Lower(name))
    IN  IF IsDir(folderpath, entries, repo_folderpath)
        THEN repo_folderpath
        ELSE IF Cardinality(PossibleFolderpaths(folderpath, entries)) = 1
             THEN CHOOSE path \in PossibleFolderpaths(folderpath, entries) : TRUE
             ELSE folderpath

\* download_and_unzip_repo is not running.
FetchIdle ==
    /\ fpc = "idle"
    /\ try_number = 0
    /\ outcomes = <<>>
    /\ sleeps = <<>>
    /\ zip_file = FALSE
    /\ stale_seen = FALSE
    /\ fetch_exc = NoFetchException
    /\ fetched_repo_name = None
    /\ listing = {}
    /\ returned_folderpath = None

\* The state on entry to the while loop (lines 113-116), called from line
\* 167 with the empty directory that mkdtemp made at line 166. A zip file
\* of the same name may be left over from an earlier job.
FetchInit ==
    /\ fpc = "loop"
    /\ prefix \in Prefixes
    /\ try_number = 1
    /\ outcomes = <<>>
    /\ sleeps = <<>>
    /\ zip_file \in BOOLEAN
    /\ stale_seen = FALSE
    /\ fetch_exc = NoFetchException
    /\ fetched_repo_name \in RepoNames
    /\ listing = {}
    /\ returned_folderpath = None
    /\ jpc = "idle"
    /\ queued_json_payload = None
    /\ our_queue = <<>>
    /\ abort_duplicate_flag = FALSE
    /\ job_descriptive_name = None
    /\ WrapperIdle
    /\ debug_mode_flag = FALSE
    /\ PoolIdle

\* One pass of the loop in which download_file and unzip both succeed:
\* break, then lines 156-159. unzip has put the entries of the archive in
\* repo_dir.
AttemptSucceeds ==
    /\ fpc = "loop"
    /\ outcomes' = Append(outcomes, "ok")
    /\ stale_seen' = (stale_seen \/ RemoveStale(zip_file))
    /\ zip_file' = (prefix # "")
    /\ listing' \in Listings
    /\ fpc' = "returned"
    /\ UNCHANGED <<prefix, try_number, sleeps, fetch_exc, fetched_repo_name, returned_folderpath>>
    /\ UNCHANGED job_vars
    /\ UNCHANGED pool_vars

\* One pass in which download_file raises HTTPError (lines 137-146). What
\* the failed download left at the target path is not known.
AttemptHTTPError ==
    /\ fpc = "loop"
    /\ outcomes' = Append(outcomes, "HTTPError")
    /\ stale_seen' = (stale_seen \/ RemoveStale(zip_file))
    /\ zip_file' \in BOOLEAN
    /\ IF HTTPErrorRetry(try_number)
       THEN /\ sleeps' = Append(sleeps, SECONDS_BETWEEN_TRIES - 1)
            /\ try_number' = try_number + 1
            /\ UNCHANGED <<fpc, fetch_exc>>
       ELSE /\ fpc' = "raised"
            /\ fetch_exc' = [class |-> "HTTPError", try |-> try_number]
            /\ UNCHANGED <<sleeps, try_number>>
    /\ UNCHANGED <<prefix, fetched_repo_name, listing, returned_folderpath>>
    /\ UNCHANGED job_vars
    /\ UNCHANGED pool_vars

\* One pass in which the download succeeds and unzip raises BadZipFile
\* (lines 147-154).
AttemptBadZipFile ==
    /\ fpc = "loop"
    /\ outcomes' = Append(outcomes, "BadZipFile")
    /\ stale_seen' = (stale_seen \/ RemoveStale(zip_file))
    /\ zip_file' = TRUE
    /\ IF BadZipFileRetry(try_number)
       THEN /\ sleeps' = Append(sleeps, SECONDS_BETWEEN_TRIES)
            /\ try_number' = try_number + 1
            /\ UNCHANGED <<fpc, fetch_exc>>
       ELSE /\ fpc' = "raised"
            /\ fetch_exc' = [class |-> "BadZipFile", try |-> try_number]
            /\ UNCHANGED <<sleeps, try_number>>
    /\ UNCHANGED <<prefix, fetched_repo_name, listing, returned_folderpath>>
    /\ UNCHANGED job_vars
    /\ UNCHANGED pool_vars

\* One pass in which download_file or unzip raises anything else (URLError,
\* OSError, ...): no except clause of the loop takes it, it leaves the
\* function at once.
AttemptOtherError ==
    /\ fpc = "loop"
    /\ outcomes' = Append(outcomes, "OtherError")
    /\ stale_seen' = (stale_seen \/ RemoveStale(zip_file))
    /\ zip_file' \in BOOLEAN
    /\ fpc' = "raised"
    /\ fetch_exc' = [class |-> "OtherError", try |-> try_number]
    /\ UNCHANGED <<prefix, try_number, sleeps, fetched_repo_name, listing, returned_folderpath>>
    /\ UNCHANGED job_vars
    /\ UNCHANGED pool_vars

\* Lines 168-189, after download_and_unzip_repo has returned.
SelectFolder ==
    /\ fpc = "returned"
    /\ returned_folderpath' = SelectRepoFolder(temp_folderpath, fetched_repo_name, listing)
    /\ fpc' = "done"
    /\ UNCHANGED <<prefix, try_number, outcomes, sleeps, zip_file, stale_seen, fetch_exc,
                   fetched_repo_name, listing>>
    /\ UNCHANGED job_vars
    /\ UNCHANGED pool_vars

FetchNext ==
    \/ AttemptSucceeds
    \/ AttemptHTTPError
    \/ AttemptBadZipFile
    \/ AttemptOtherError
    \/ SelectFolder

SpecFetch == FetchInit /\ [][FetchNext]_vars

\* Every attempt so far failed, and failed with class c.
OnlyFailed(c) ==
    /\ outcomes # <<>>
    /\ \A i \in 1..Len(outcomes) : outcomes[i] = c

\* The attempts before the last one all failed with class c, the last succeeded.
FailedThenOk(c) ==
    /\ outcomes # <<>>
    /\ outcomes[Len(outcomes)] = "ok"
    /\ \A i \in 1..(Len(outcomes) - 1) : outcomes[i] = c

Waits(n, seconds) == [i \in 1..n |-> seconds]

\* C3 as stated: a source that always fails with HTTPError is given up
\* after exactly 4 attempts and 3 waits of 4 seconds, with the HTTPError.
C3_AsStated ==
    (OnlyFailed("HTTPError") /\ fpc = "raised") =>
        /\ Len(outcomes) = 4
        /\ sleeps = Waits(3, 4)
        /\ fetch_exc.class = "HTTPError"

\* C3 amended: a source that always fails with HTTPError is tried exactly
\* 3 times, with a sleep of 4 seconds between consecutive attempts (2
\* sleeps), and the HTTPError of the third attempt is raised to the caller.
C3_NetworkExhaustion ==
    OnlyFailed("HTTPError") =>
        /\ Len(outcomes) <= 3
        /\ (fpc = "raised") = (Len(outcomes) = 3)
        /\ fpc \in {"loop", "raised"}
        /\ fpc = "loop" => sleeps = Waits(Len(outcomes), 4)
        /\ fpc = "raised" =>
              /\ sleeps = Waits(2, 4)
              /\ fetch_exc = [class |-> "HTTPError", try |-> 3]

C3_Witness ==
    /\ fpc = "raised"
    /\ outcomes = <<"HTTPError", "HTTPError", "HTTPError">>

\* C4: a source that always returns a corrupt archive is tried exactly 4
\* times, with a sleep of 5 seconds between consecutive attempts (3
\* sleeps), and then a BadZipFile is raised to the caller.
C4_CorruptExhaustion ==
    OnlyFailed("BadZipFile") =>
        /\ Len(outcomes) <= 4
        /\ (fpc = "raised") = (Len(outcomes) = 4)
        /\ fpc \in {"loop", "raised"}
        /\ fpc = "loop" => sleeps = Waits(Len(outcomes), 5)
        /\ fpc = "raised" =>
              /\ sleeps = Waits(3, 5)
              /\ fetch_exc = [class |-> "BadZipFile", try |-> 4]

C4_Witness ==
    /\ fpc = "raised"
    /\ outcomes = <<"BadZipFile", "BadZipFile", "BadZipFile", "BadZipFile">>

\* C5 as stated: after k < 4 failures of one class the function has not
\* given up, so that a success at attempt k+1 ends it.
C5_AsStated ==
    \A c \in {"HTTPError", "BadZipFile"} :
        (OnlyFailed(c) /\ Len(outcomes) < 4) => ENABLED AttemptSucceeds

\* The number of failures of class c after which the function gives up.
GivesUpAfter(c) == IF c = "HTTPError" THEN 3 ELSE 4

\* C5 amended: after k failures of one class, a success at attempt k+1 is
\* still possible exactly when k < 3 for HTTPError and k < 4 for
\* BadZipFile; the function then returns after exactly k+1 attempts and k
\* sleeps and raises nothing, and no attempt follows the success.
C5_SuccessAfterFailures ==
    \A c \in {"HTTPError", "BadZipFile"} :
        /\ OnlyFailed(c) =>
              ((ENABLED AttemptSucceeds) = (Len(outcomes) < GivesUpAfter(c)))
        /\ FailedThenOk(c) =>
              /\ fpc \in {"returned", "done"}
              /\ fetch_exc = NoFetchException
              /\ Len(outcomes) - 1 < GivesUpAfter(c)
              /\ try_number = Len(outcomes)
              /\ Len(sleeps) = Len(outcomes) - 1
              /\ ~ ENABLED AttemptSucceeds
              /\ ~ ENABLED AttemptHTTPError
              /\ ~ ENABLED AttemptBadZipFile
              /\ ~ ENABLED AttemptOtherError

C5_Witness ==
    /\ fpc = "returned"
    /\ outcomes = <<"HTTPError", "HTTPError", "ok">>
    /\ try_number = 3

-----------------------------------------------------------------------------
(* str operations                                                          *)

\* s.split(sep) for a one-token separator: the pieces between the
\* separators, empty pieces included.
RECURSIVE SplitFrom(_, _, _)
SplitFrom(s, sep, piece) ==
    IF s = <<>> THEN <<piece>>
    ELSE IF Head(s) = sep
         THEN <<piece>> \o SplitFrom(Tail(s), sep, <<>>)
         ELSE SplitFrom(Tail(s), sep, Append(piece, Head(s)))

Split(s, sep) == SplitFrom(s, sep, <<>>)

\* seq[:n]
Slice(seq, n) == SubSeq(seq, 1, Min(n, Len(seq)))

StartsWith(s, old) == Len(s) >= Len(old) /\ SubSeq(s, 1, Len(old)) = old

\* s.replace(old, new): every occurrence, left to right.
RECURSIVE Replace(_, _, _)
Replace(s, old, new) ==
    IF s = <<>> THEN <<>>
    ELSE IF StartsWith(s, old)
         THEN new \o Replace(SubSeq(s, Len(old) + 1, Len(s)), old, new)
         ELSE <<Head(s)>> \o Replace(Tail(s), old, new)

HttpsPrefix == <<"https:", "/", "/">>

-----------------------------------------------------------------------------
(* Payloads and queued jobs                                                *)

\* The commit URL that Gitea puts in a push payload.
CommitUrl(scheme, repo, hash) ==
    <<scheme, "/", "/", "git.door43.org", "/", "bob", "/", repo, "/", "commit", "/", hash>>

\* A URL of fewer than six pieces.
ShortUrl == <<"https:", "/", "/", "git.door43.org", "/", "bob">>

Urls ==
    { CommitUrl("https:", "proj", "c1"), CommitUrl("https:", "proj", "c2"),
      CommitUrl("https:", "other", "c1"), CommitUrl("http:", "proj", "c1"),
      ShortUrl }

Commit(url) == [url |-> url]

\* payload['commits']: no commit, one commit, or two.
CommitLists ==
    {<<>>}
    \cup { <<Commit(u)>> : u \in Urls }
    \cup { <<Commit(CommitUrl("https:", "proj", "c1")), Commit(CommitUrl("https:", "proj", "c2"))>>,
           <<Commit(CommitUrl("https:", "other", "c1")), Commit(CommitUrl("https:", "other", "c1"))>> }

NoRepository ==
    [shape |-> "absent", default_branch |-> Absent, owner_username |-> Absent, name |-> Absent]

NoRelease ==
    [shape |-> "absent", tag_name |-> Absent, zipball_url |-> Absent, name |-> Absent,
     author |-> "absent", author_username |-> Absent]

\* payload['ref'] of a push is the pushed branch, 'refs/heads/' + branch;
\* the payload built here has none.
Payload(event, repository, release, commits) ==
    [DCS_event |-> event, repository |-> repository, release |-> release, commits |-> commits,
     ref |-> Absent]

Ref(branch) == <<"refs", "/", "heads", "/">> \o branch

PushTo(branch, payload) == [payload EXCEPT !.ref = Ref(branch)]

\* The payloads the detector is run on: it reads DCS_event and commits only.
DetectPayloads ==
    { Payload("push", NoRepository, NoRelease, c) : c \in CommitLists }
    \cup { Payload(e, NoRepository, NoRelease, <<>>) : e \in {"release", "fork"} }
    \cup { Payload("release", NoRepository, NoRelease, <<Commit(CommitUrl("https:", "proj", "c1"))>>) }

\* A job of the queue: enqueue passes the payload as its one argument.
QueuedJob(status, payload) == [status |-> status, args |-> <<payload>>]

DetectQueuedJobs ==
    { QueuedJob(st, p) : st \in {"queued", "started"},
                         p \in { q \in DetectPayloads : q.DCS_event # "fork" } }

MaxQueueLen == 2

SeqsUpTo(set, n) == UNION { [1..k -> set] : k \in 0..n }

DetectQueues == SeqsUpTo(DetectQueuedJobs, MaxQueueLen)

-----------------------------------------------------------------------------
(* check_for_forthcoming_pushes_in_queue                                   *)

\* Lines 202-204.
IsSinglePush(payload) ==
    payload.DCS_event = "push" /\ Len(payload.commits) = 1

\* Lines 209-215 without the get_status() test of line 208.
IsDuplicate_AnyStatus(queued_job, my_url_bits) ==
    /\ Len(queued_job.args) = 1
    /\ IsSinglePush(queued_job.args[1])
    /\ Slice(Split(queued_job.args[1].commits[1].url, "/"), 6) = Slice(my_url_bits, 6)

\* Lines 208-215 for one queued job.
IsDuplicate(queued_job, my_url_bits) ==
    /\ queued_job.status = "queued"
    /\ Len(queued_job.args) = 1
    /\ IsSinglePush(queued_job.args[1])
    /\ Slice(Split(queued_job.args[1].commits[1].url, "/"), 6) = Slice(my_url_bits, 6)

\* Line 217.
DescriptiveName(queued_job) ==
    Replace(queued_job.args[1].commits[1].url, HttpsPrefix, <<>>)

\* The for loop of lines 207-219 from the i-th job on.
RECURSIVE ScanQueue(_, _, _)
ScanQueue(jobs, i, my_url_bits) ==
    IF i > Len(jobs) THEN <<FALSE, None>>
    ELSE IF IsDuplicate(jobs[i], my_url_bits)
         THEN <<TRUE, DescriptiveName(jobs[i])>>
         ELSE ScanQueue(jobs, i + 1, my_url_bits)

\* The loop run from the end of the queue: the last duplicate wins.
RECURSIVE ScanQueueBackwards(_, _, _)
ScanQueueBackwards(jobs, i, my_url_bits) ==
    IF i < 1 THEN <<FALSE, None>>
    ELSE IF IsDuplicate(jobs[i], my_url_bits)
         THEN <<TRUE, DescriptiveName(jobs[i])>>
         ELSE ScanQueueBackwards(jobs, i - 1, my_url_bits)

check_for_forthcoming_pushes_in_queue_LastWins(submitted_json_payload, queue) ==
    IF IsSinglePush(submitted_json_payload) /\ Len(queue) # 0
    THEN ScanQueueBackwards(queue, Len(queue),
                            Split(submitted_json_payload.commits[1].url, "/"))
    ELSE <<FALSE, None>>

\* The narrowing condition without len(commits) == 1.
check_for_forthcoming_pushes_in_queue_AnyPush(submitted_json_payload, queue) ==
    IF /\ submitted_json_payload.DCS_event = "push"
       /\ Len(submitted_json_payload.commits) >= 1
       /\ Len(queue) # 0
    THEN ScanQueue(queue, 1, Split(submitted_json_payload.commits[1].url, "/"))
    ELSE <<FALSE, None>>

check_for_forthcoming_pushes_in_queue(submitted_json_payload, queue) ==
    IF IsSinglePush(submitted_json_payload) /\ Len(queue) # 0
    THEN ScanQueue(queue, 1, Split(submitted_json_payload.commits[1].url, "/"))
    ELSE <<FALSE, None>>

DetectInit ==
    /\ FetchIdle
    /\ prefix = ""
    /\ jpc = "detect"
    /\ queued_json_payload \in DetectPayloads
    /\ our_queue \in DetectQueues
    /\ abort_duplicate_flag = FALSE
    /\ job_descriptive_name = None
    /\ WrapperIdle
    /\ debug_mode_flag = FALSE
    /\ PoolIdle

\* Line 355.
Detect ==
    /\ jpc = "detect"
    /\ LET result == check_for_forthcoming_pushes_in_queue(queued_json_payload, our_queue)
       IN  /\ abort_duplicate_flag' = result[1]
           /\ job_descriptive_name' = result[2]
    /\ jpc' = "detected"
    /\ UNCHANGED <<queued_json_payload, our_queue>>
    /\ UNCHANGED wrapper_vars
    /\ UNCHANGED fetch_vars
    /\ UNCHANGED pool_vars

DetectNext == Detect

SpecDetect == DetectInit /\ [][DetectNext]_vars

\* The part of a URL before its sixth "/": its first six "/"-delimited
\* segments (all of it when it has fewer slashes).
FirstSixSegments(url) ==
    LET slashes == { i \in 1..Len(url) : url[i] = "/" }
        sixth == { i \in slashes : Cardinality({ j \in slashes : j < i }) = 5 }
    IN  IF sixth = {} THEN url
        ELSE SubSeq(url, 1, (CHOOSE i \in sixth : TRUE) - 1)

WithoutHttpsPrefix(url) ==
    IF StartsWith(url, HttpsPrefix) THEN SubSeq(url, Len(HttpsPrefix) + 1, Len(url)) ELSE url

\* The queued job is a queued single-commit push to the repository of the
\* single-commit push payload.
SupersededBy(payload, queued_job) ==
    /\ queued_job.status = "queued"
    /\ queued_job.args[1].DCS_event = "push"
    /\ Len(queued_job.args[1].commits) = 1
    /\ FirstSixSegments(queued_job.args[1].commits[1].url)
         = FirstSixSegments(payload.commits[1].url)

Superseding(payload, queue) ==
    { i \in 1..Len(queue) : SupersededBy(payload, queue[i]) }

\* C6: for a single-commit push payload and a queue holding a queued
\* single-commit push whose commit URL has the same first six segments, the
\* detector returns True and the commit URL, less its https:// prefix, of
\* the first such job in the queue's order.
C6_FirstDuplicateWins ==
    (/\ jpc = "detected"
     /\ queued_json_payload.DCS_event = "push"
     /\ Len(queued_json_payload.commits) = 1
     /\ Superseding(queued_json_payload, our_queue) # {}) =>
        LET dups == Superseding(queued_json_payload, our_queue)
            first == CHOOSE i \in dups : \A j \in dups : i <= j
        IN  /\ abort_duplicate_flag = TRUE
            /\ job_descriptive_name
                 = WithoutHttpsPrefix(our_queue[first].args[1].commits[1].url)

\* The scan passed a job that is no duplicate and found one behind it.
C6_Witness ==
    /\ jpc = "detected"
    /\ abort_duplicate_flag = TRUE
    /\ Len(our_queue) = 2
    /\ Superseding(queued_json_payload, our_queue) = {2}
    /\ job_descriptive_name = <<"git.door43.org", "/", "bob", "/", "proj", "/", "commit", "/", "c2">>

\* C7: the detector returns (False, None) for a payload that is no push,
\* for a push whose commit list has not exactly one commit, and for a
\* single-commit push with an empty queue, whatever the queue holds.
C7_NarrowingFails ==
    (/\ jpc = "detected"
     /\ \/ queued_json_payload.DCS_event # "push"
        \/ Len(queued_json_payload.commits) # 1
        \/ our_queue = <<>>) =>
        /\ abort_duplicate_flag = FALSE
        /\ job_descriptive_name = None

\* A push of two commits, with a queued single-commit push to the same
\* repository in the queue.
C7_Witness ==
    /\ jpc = "detected"
    /\ queued_json_payload.DCS_event = "push"
    /\ Len(queued_json_payload.commits) = 2
    /\ \E i \in 1..Len(our_queue) :
          /\ our_queue[i].status = "queued"
          /\ our_queue[i].args[1].DCS_event = "push"
          /\ our_queue[i].args[1].commits = <<queued_json_payload.commits[1]>>
    /\ abort_duplicate_flag = FALSE
    /\ job_descriptive_name = None

-----------------------------------------------------------------------------
(* process_webhook_job                                                     *)

\* What job() receives. The repository is absent, or a dict with or
\* without default_branch (which may be null) and with or without its owner.
Repositories ==
    {NoRepository}
    \cup { [shape |-> "dict", default_branch |-> b, owner_username |-> o, name |-> S("proj")] :
             b \in {Absent, None, S("master")}, o \in {Absent, S("bob")} }

\* payload['release']: absent, not a dict (a JSON list or null), or a dict
\* with or without each of its fields; author, when there, is a dict with
\* or without a username.
Releases ==
    { NoRelease, [NoRelease EXCEPT !.shape = "list"] }
    \cup { [shape |-> "dict", tag_name |-> t, zipball_url |-> z, name |-> n,
            author |-> a[1], author_username |-> a[2]] :
             t \in {Absent, <<>>, S("v1.0")},
             z \in {Absent, <<"https:", "/", "/", "host", "/", "x.zip">>},
             n \in {Absent, S("First release")},
             a \in {<<"absent", Absent>>, <<"dict", Absent>>, <<"dict", S("alice")>>} }

JobPayloads ==
    { Payload("release", r, rel, <<>>) : r \in Repositories, rel \in Releases }
    \cup { PushTo(b, Payload("push", r, NoRelease, c)) :
             b \in {S("master"), S("develop")},
             r \in Repositories,
             c \in { <<>>,
                     <<Commit(CommitUrl("https:", "proj", "c1"))>>,
                     <<Commit(CommitUrl("https:", "proj", "c1")),
                       Commit(CommitUrl("https:", "proj", "c2"))>> } }
    \cup { Payload("fork", r, NoRelease, <<>>) : r \in Repositories }

\* The jobs still in the queue when job() runs.
JobQueuedJobs ==
    { QueuedJob(st, Payload("push", NoRepository, NoRelease,
                            <<Commit(CommitUrl("https:", "proj", "c2"))>>)) :
        st \in {"queued", "started"} }

JobQueues == SeqsUpTo(JobQueuedJobs, MaxQueueLen)

\* A call on a logger or on stats_client; a message that formats an
\* exception carries it.
Call(sink, call, what) == [sink |-> S(sink), call |-> call, what |-> what, exc |-> NoException]

Exception(class, line) == [class |-> class, line |-> line]

\* The locals of process_webhook_job after line 275; a name not yet bound
\* is Absent.
FirstLocals(default_branch, repo_owner_username, repo_name) ==
    [default_branch |-> default_branch,
     repo_owner_username |-> repo_owner_username,
     repo_name |-> repo_name,
     commit_branch |-> None, commit_hash |-> None,
     repo_data_url |-> None, tag_name |-> None,
     action_message |-> Absent, pusher_username |-> Absent, our_identifier |-> Absent,
     commit_type |-> Absent, commit_id |-> Absent]

\* How process_webhook_job is left: by an exception or with a return value.
Left(exc, value, l, calls, log) ==
    [exc |-> exc, value |-> value, locals |-> l, handled |-> calls, log |-> log]

\* Lines 250-261: each set() is guarded by its own try.
UpdateIdStats ==
    << Call("stats_client", "set", "repo_ids"),
       Call("stats_client", "set", "owner_ids"),
       Call("stats_client", "set", "pusher_ids") >>

\* Lines 264-268.
HasDefaultBranch(payload) ==
    payload.repository.shape = "dict" /\ payload.repository.default_branch # Absent

GetDefaultBranch(payload) ==
    IF HasDefaultBranch(payload) THEN payload.repository.default_branch
    ELSE S("NoDefaultBranch")

\* Lines 278-285: the tag name. Subscripting a release that is no dict
\* raises TypeError, which neither except clause takes.
GetTagName(payload) ==
    IF payload.release.shape = "list"
    THEN [exc |-> Exception("TypeError", 279), tag_name |-> None, log |-> <<>>]
    ELSE IF payload.release.shape = "absent" \/ payload.release.tag_name = Absent
         THEN [exc |-> NoException, tag_name |-> S("NoTagName"),
               log |-> <<Call("AppSettings.logger", "critical", "No tag name specified")>>]
         ELSE [exc |-> NoException, tag_name |-> payload.release.tag_name, log |-> <<>>]

\* Line 294.
OurIdentifier(pusher_username, repo_owner_username, repo_name) ==
    S("'") \o pusher_username \o S("' releasing '") \o repo_owner_username
           \o S("/") \o repo_name \o S("'")

\* Lines 276-296: the locals after the release branch, or the exception
\* that ends it.
ReleaseBranch(payload, l) ==
    LET tag == GetTagName(payload)
        rel == payload.release
        l1 == [l EXCEPT !.tag_name = tag.tag_name]
        l2 == [l1 EXCEPT !.repo_data_url = rel.zipball_url]
        l3 == [l2 EXCEPT !.action_message = rel.name]
        pusher_username == IF rel.author = "dict" THEN rel.author_username ELSE S("test")
        l4 == [l3 EXCEPT !.pusher_username = pusher_username,
                         !.our_identifier = OurIdentifier(pusher_username,
                                                l.repo_owner_username, l.repo_name)]
        no_tag == tag.log
    IN  IF tag.exc # NoException THEN [exc |-> tag.exc, locals |-> l, log |-> <<>>]
        ELSE IF rel.shape = "absent" \/ rel.zipball_url = Absent
             THEN [exc |-> Exception("KeyError", 286), locals |-> l1, log |-> no_tag]
        ELSE IF rel.name = Absent
             THEN [exc |-> Exception("KeyError", 287), locals |-> l2, log |-> no_tag]
        ELSE IF pusher_username = Absent
             THEN [exc |-> Exception("KeyError", 293), locals |-> l3, log |-> no_tag]
        ELSE [exc |-> NoException, locals |-> l4, log |-> no_tag]

\* Line 296.
OtherBranch(payload, l) ==
    [exc |-> NoException, locals |-> l,
     log |-> <<Call("AppSettings.logger", "critical", "Can't handle yet")>>]

\* Lines 298-309.
ResolveCommit(commit_branch, default_branch, tag_name) ==
    IF commit_branch = default_branch THEN <<S("defaultBranch"), commit_branch>>
    ELSE IF Truthy(tag_name) THEN <<S("tag"), tag_name>>
    ELSE IF commit_branch \notin {None, S("UnknownCommitBranch"), S("NoCommitBranch")}
         THEN <<S("branch"), commit_branch>>
         ELSE <<S("unknown"), None>>

\* Lines 315-328, once the commit is resolved.
ProcessResolved(payload, l, log) ==
    LET calls == IF Truthy(l.commit_id)
                 THEN << [repo_owner_username |-> l.repo_owner_username,
                          repo_name |-> l.repo_name,
                          commit_id |-> l.commit_id,
                          repo_data_url |-> l.repo_data_url] >>
                 ELSE <<>>
    IN  IF l.our_identifier = Absent \/ l.action_message = Absent
        THEN Left(Exception("UnboundLocalError", 315), None, l, <<>>, log)
        ELSE Left(NoException, l.our_identifier, l, calls,
                  log \o << Call("AppSettings.logger", "info", "Processing job"),
                            Call("stats_client", "incr", "users.invoked"),
                            Call("AppSettings.logger", "critical", "Nothing to process"),
                            Call("AppSettings.logger", "info", "process_webhook_job has finished") >>)

process_webhook_job(payload) ==
    LET log1 == UpdateIdStats \o
                (IF HasDefaultBranch(payload) THEN <<>>
                 ELSE <<Call("AppSettings.logger", "critical", "No default branch specified")>>)
        repo == payload.repository
        unbound == [k \in DOMAIN FirstLocals(Absent, Absent, Absent) |-> Absent]
        l0 == FirstLocals(GetDefaultBranch(payload), repo.owner_username, repo.name)
        branch == IF payload.DCS_event = "release"
                  THEN ReleaseBranch(payload, l0)
                  ELSE OtherBranch(payload, l0)
        commit == ResolveCommit(branch.locals.commit_branch,
                                branch.locals.default_branch,
                                branch.locals.tag_name)
        resolved == [branch.locals EXCEPT !.commit_type = commit[1], !.commit_id = commit[2]]
    IN  IF repo.shape # "dict" \/ repo.owner_username = Absent
        THEN Left(Exception("KeyError", 272),
                  None, [unbound EXCEPT !.default_branch = GetDefaultBranch(payload)], <<>>, log1)
        ELSE IF repo.name = Absent
        THEN Left(Exception("KeyError", 273), None,
                  [unbound EXCEPT !.default_branch = GetDefaultBranch(payload),
                                  !.repo_owner_username = repo.owner_username], <<>>, log1)
        ELSE IF branch.exc # NoException
        THEN Left(branch.exc, None, branch.locals, <<>>, log1 \o branch.log)
        ELSE ProcessResolved(payload, resolved, log1 \o branch.log)

-----------------------------------------------------------------------------
(* job                                                                     *)

MaxJobs == 2

PrefixStr == IF prefix = "" THEN <<>> ELSE S(prefix)

\* Lines 373-376.
LogGroupName(test_mode_flag, travis_flag) ==
    S("FAILED_")
    \o (IF test_mode_flag \/ travis_flag THEN <<>> ELSE PrefixStr)
    \o S("tX")
    \o (IF debug_mode_flag THEN S("_DEBUG") ELSE <<>>)
    \o (IF test_mode_flag THEN S("_TEST") ELSE <<>>)
    \o (IF travis_flag THEN S("_TravisCI") ELSE <<>>)

\* The message of lines 364 and 388.
Threw(sink, exc) ==
    [sink |-> sink, call |-> "critical",
     what |-> "webhook threw an exception while processing", exc |-> exc]

\* Lines 364-392: what the except clause does before it raises. The worker
\* runs with its AWS credentials in the environment, as its primary
\* CloudWatch logger needs them too.
FailureCalls(exc, log_group_name) ==
    << Threw(S("AppSettings.logger"), exc),
       Call("AppSettings", "close_logger", ""),
       [Call("logger2", "info", "Logging to AWS CloudWatch group") EXCEPT !.sink = log_group_name],
       Threw(log_group_name, exc),
       [Call("failure_watchtower_log_handler", "close", "") EXCEPT !.sink = log_group_name],
       Call("stats_client", "gauge", "types.invoked.unknown") >>

\* Lines 395-403.
CompletionCalls(under_two_seconds) ==
    << Call("stats_client", "timing", "job.duration"),
       Call("AppSettings.logger", "info",
            IF under_two_seconds THEN "completed in milliseconds" ELSE "completed in seconds"),
       Call("stats_client", "incr", "jobs.completed"),
       Call("AppSettings", "close_logger", "") >>

JobInit ==
    /\ FetchIdle
    /\ prefix \in Prefixes
    /\ debug_mode_flag \in BOOLEAN
    /\ jpc = "idle"
    /\ queued_json_payload = None
    /\ our_queue = <<>>
    /\ abort_duplicate_flag = FALSE
    /\ job_descriptive_name = None
    /\ WrapperIdle
    /\ PoolIdle

\* rq takes a job from the queue and calls job() with its payload; lines
\* 341-353. The other jobs of the queue are whatever was enqueued since.
JobReceived ==
    /\ jpc = "idle"
    /\ jobs_run < MaxJobs
    /\ jobs_run' = jobs_run + 1
    /\ queued_json_payload' \in JobPayloads
    /\ our_queue' \in JobQueues
    /\ len_our_queue' = Len(our_queue')
    /\ stats' = [stats EXCEPT !.attempted = @ + 1]
    /\ events' = << Call("AppSettings.logger", "debug", "received a job"),
                    Call("stats_client", "incr", "jobs.attempted") >>
    /\ abort_duplicate_flag' = FALSE
    /\ job_descriptive_name' = None
    /\ locals' = None
    /\ handled' = <<>>
    /\ job_exc' = NoException
    /\ jpc' = "check"
    /\ UNCHANGED <<debug_mode_flag, failed_queue>>
    /\ UNCHANGED fetch_vars
    /\ UNCHANGED pool_vars

\* Lines 355-358 with a job() that goes on to process_webhook_job whatever
\* the detector said.
JobCheckForDuplicates_Proceeds ==
    /\ jpc = "check"
    /\ LET result == check_for_forthcoming_pushes_in_queue(queued_json_payload, our_queue)
       IN  /\ abort_duplicate_flag' = result[1]
           /\ job_descriptive_name' = result[2]
           /\ jpc' = "process"
           /\ events' = events \o
                << Call("stats_client", "gauge", "queue.length.current"),
                   Call("AppSettings.logger", "info", "Updated stats") >>
    /\ UNCHANGED <<queued_json_payload, our_queue, debug_mode_flag, len_our_queue, stats,
                   locals, handled, job_exc, jobs_run, failed_queue>>
    /\ UNCHANGED fetch_vars
    /\ UNCHANGED pool_vars

\* Lines 355-358.
JobCheckForDuplicates ==
    /\ jpc = "check"
    /\ LET result == check_for_forthcoming_pushes_in_queue(queued_json_payload, our_queue)
       IN  /\ abort_duplicate_flag' = result[1]
           /\ job_descriptive_name' = result[2]
           /\ IF result[1]
              THEN /\ jpc' = "finish"
                   /\ UNCHANGED events
              ELSE /\ jpc' = "process"
                   /\ events' = events \o
                        << Call("stats_client", "gauge", "queue.length.current"),
                           Call("AppSettings.logger", "info", "Updated stats") >>
    /\ UNCHANGED <<queued_json_payload, our_queue, debug_mode_flag, len_our_queue, stats,
                   locals, handled, job_exc, jobs_run, failed_queue>>
    /\ UNCHANGED fetch_vars
    /\ UNCHANGED pool_vars

\* Lines 360-362: process_webhook_job returns, or the except clause is entered
\* with e, held in job_exc until it is raised.
JobProcess ==
    /\ jpc = "process"
    /\ LET left == process_webhook_job(queued_json_payload)
       IN  /\ events' = events \o left.log
           /\ locals' = left.locals
           /\ handled' = left.handled
           /\ job_exc' = left.exc
           /\ IF left.exc = NoException
              THEN /\ job_descriptive_name' = left.value
                   /\ jpc' = "finish"
              ELSE /\ jpc' = "except"
                   /\ UNCHANGED job_descriptive_name
    /\ UNCHANGED <<queued_json_payload, our_queue, abort_duplicate_flag, debug_mode_flag,
                   len_our_queue, stats, jobs_run, failed_queue>>
    /\ UNCHANGED fetch_vars
    /\ UNCHANGED pool_vars

\* The except clause with a raise that wraps e in a new exception.
JobExcept_Wraps ==
    /\ jpc = "except"
    /\ \E test_mode_flag \in BOOLEAN, travis_flag \in BOOLEAN :
          events' = events \o FailureCalls(job_exc, LogGroupName(test_mode_flag, travis_flag))
    /\ job_exc' = Exception("RuntimeError", 393)
    /\ jpc' = "raised"
    /\ UNCHANGED <<detect_vars, debug_mode_flag, len_our_queue, stats, locals, handled, jobs_run,
                   failed_queue>>
    /\ UNCHANGED fetch_vars
    /\ UNCHANGED pool_vars

\* Lines 362-393: the except clause, ending in raise e.
JobExcept ==
    /\ jpc = "except"
    /\ \E test_mode_flag \in BOOLEAN, travis_flag \in BOOLEAN :
          events' = events \o FailureCalls(job_exc, LogGroupName(test_mode_flag, travis_flag))
    /\ jpc' = "raised"
    /\ UNCHANGED <<detect_vars, debug_mode_flag, len_our_queue, stats, locals, handled,
                   job_exc, jobs_run, failed_queue>>
    /\ UNCHANGED fetch_vars
    /\ UNCHANGED pool_vars

\* Lines 395-403 without the incr of jobs.completed.
JobFinish_NoCompleted ==
    /\ jpc = "finish"
    /\ \E under_two_seconds \in BOOLEAN :
          events' = events \o SubSeq(CompletionCalls(under_two_seconds), 1, 2)
    /\ stats' = [stats EXCEPT !.duration = @ + 1]
    /\ jpc' = "returned"
    /\ UNCHANGED <<detect_vars, debug_mode_flag, len_our_queue, locals, handled, job_exc, jobs_run, failed_queue>>
    /\ UNCHANGED fetch_vars
    /\ UNCHANGED pool_vars

\* Lines 395-403: reached when the job was aborted as a duplicate and when
\* process_webhook_job returned.
JobFinish ==
    /\ jpc = "finish"
    /\ \E under_two_seconds \in BOOLEAN :
          events' = events \o CompletionCalls(under_two_seconds)
    /\ stats' = [stats EXCEPT !.duration = @ + 1, !.completed = @ + 1]
    /\ jpc' = "returned"
    /\ UNCHANGED <<detect_vars, debug_mode_flag, len_our_queue, locals, handled, job_exc, jobs_run, failed_queue>>
    /\ UNCHANGED fetch_vars
    /\ UNCHANGED pool_vars

\* job() has returned or raised: its locals are gone, and rq puts a job
\* that raised in its failed queue (lines 337-339).
JobLeft ==
    /\ jpc \in {"returned", "raised"}
    /\ failed_queue' = failed_queue + (IF jpc = "raised" THEN 1 ELSE 0)
    /\ jpc' = "idle"
    /\ queued_json_payload' = None
    /\ our_queue' = <<>>
    /\ abort_duplicate_flag' = FALSE
    /\ job_descriptive_name' = None
    /\ len_our_queue' = 0
    /\ events' = <<>>
    /\ locals' = None
    /\ handled' = <<>>
    /\ job_exc' = NoException
    /\ UNCHANGED <<debug_mode_flag, stats, jobs_run>>
    /\ UNCHANGED fetch_vars
    /\ UNCHANGED pool_vars

Next ==
    \/ JobReceived
    \/ JobCheckForDuplicates
    \/ JobProcess
    \/ JobExcept
    \/ JobFinish
    \/ JobLeft

Spec == JobInit /\ [][Next]_vars

\* The number of calls of one kind that this job() has made.
Calls(call, what) ==
    Cardinality({ i \in 1..Len(events) : events[i].call = call /\ events[i].what = what })

JobEnded == jpc \in {"returned", "raised"}

\* C1 as stated: every job() that ends, by returning or by raising, has
\* incremented jobs.completed once and timed job.duration once.
C1_AsStated ==
    JobEnded =>
        /\ Calls("incr", "jobs.completed") = 1
        /\ Calls("timing", "job.duration") = 1

\* C1 amended: a job() that returns, after process_webhook_job returned or
\* after the detector aborted it, has incremented jobs.completed exactly
\* once and timed job.duration exactly once; a job() that raises the
\* exception of process_webhook_job has done neither.
C1_CompletedOnReturnOnly ==
    /\ jpc = "returned" =>
          /\ Calls("incr", "jobs.completed") = 1
          /\ Calls("timing", "job.duration") = 1
          /\ job_exc = NoException
    /\ jpc = "raised" =>
          /\ Calls("incr", "jobs.completed") = 0
          /\ Calls("timing", "job.duration") = 0
          /\ job_exc # NoException
    /\ jpc \notin {"returned", "raised"} =>
          /\ Calls("incr", "jobs.completed") = 0
          /\ Calls("timing", "job.duration") = 0
    /\ stats.completed = stats.duration
    /\ stats.completed + failed_queue + (IF jpc = "idle" THEN 0 ELSE 1)
         = stats.attempted + (IF jpc = "returned" THEN 1 ELSE 0)

\* A second job, aborted as a duplicate, has returned after a first that raised.
C1_Witness ==
    /\ jpc = "returned"
    /\ abort_duplicate_flag
    /\ failed_queue = 1
    /\ stats.completed = 1
    /\ Calls("incr", "jobs.completed") = 1

HasOwnerAndName(payload) ==
    /\ payload.repository.shape = "dict"
    /\ payload.repository.owner_username # Absent
    /\ payload.repository.name # Absent

\* C2, for the payloads that name their repository and its owner and
\* whose default_branch is not null: when the event is neither push nor
\* release, the commit resolves to unknown and None,
\* handle_catalog_release is not called, and job() returns.
C2_AsStated ==
    (/\ JobEnded
     /\ queued_json_payload.DCS_event \notin {"push", "release"}
     /\ HasOwnerAndName(queued_json_payload)
     /\ queued_json_payload.repository.default_branch # None) =>
        /\ locals.commit_type = S("unknown")
        /\ locals.commit_id = None
        /\ handled = <<>>
        /\ jpc = "returned"
        /\ job_exc = NoException

\* The exception that process_webhook_job raises on the payload of this job().
Escaped == process_webhook_job(queued_json_payload).exc

PrimaryLogger == S("AppSettings.logger")

\* C8: when job() has raised, the last calls it made are, in this order, a
\* critical message with the exception on the primary logger, close_logger,
\* and the same critical message on a sink of a FAILED_ log group that was
\* not used before; the exception raised to rq is the one that escaped
\* process_webhook_job.
C8_FailureOrder ==
    /\ jpc = "except" => (job_exc = Escaped /\ Escaped # NoException)
    /\ jpc = "raised" =>
          LET n == Len(events)
              critical == { i \in 1..n : events[i].call = "critical" /\ events[i].exc # NoException }
              primary == { i \in critical : events[i].sink = PrimaryLogger }
              failed == { i \in critical : events[i].sink # PrimaryLogger }
              closes == { i \in 1..n : events[i].call = "close_logger" }
          IN  /\ Escaped # NoException
              /\ job_exc = Escaped
              /\ primary = {n - 5}
              /\ closes = {n - 4}
              /\ failed = {n - 2}
              /\ events[n - 2].sink[1] = "FAILED_"
              /\ \A i \in 1..(n - 4) : events[i].sink # events[n - 2].sink
              /\ events[n - 2].what = events[n - 5].what
              /\ events[n - 2].exc = Escaped
              /\ events[n - 5].exc = Escaped

\* A release without zipball_url: the KeyError of line 286 has reached rq.
C8_Witness ==
    /\ jpc = "raised"
    /\ job_exc = Exception("KeyError", 286)
    /\ events[Len(events) - 2].sink = <<"FAILED_", "dev-", "tX", "_DEBUG">>

WellFormedRelease(payload) ==
    /\ payload.DCS_event = "release"
    /\ HasOwnerAndName(payload)
    /\ payload.release.shape = "dict"
    /\ payload.release.tag_name # Absent
    /\ Truthy(payload.release.tag_name)
    /\ payload.release.zipball_url # Absent
    /\ payload.release.name # Absent
    /\ payload.release.author = "dict" => payload.release.author_username # Absent

\* C9: a release payload with a non-empty tag_name, a zipball_url, a name
\* and the repository's owner and name resolves to the tag, is handed to
\* handle_catalog_release exactly once with these values, and its job()
\* returns, not aborted, with jobs.completed incremented.
C9_AsStated ==
    (JobEnded /\ WellFormedRelease(queued_json_payload)) =>
        /\ locals.repo_owner_username = queued_json_payload.repository.owner_username
        /\ locals.repo_name = queued_json_payload.repository.name
        /\ locals.commit_type = S("tag")
        /\ locals.commit_id = queued_json_payload.release.tag_name
        /\ locals.repo_data_url = queued_json_payload.release.zipball_url
        /\ handled = << [repo_owner_username |-> queued_json_payload.repository.owner_username,
                         repo_name |-> queued_json_payload.repository.name,
                         commit_id |-> queued_json_payload.release.tag_name,
                         repo_data_url |-> queued_json_payload.release.zipball_url] >>
        /\ jpc = "returned"
        /\ ~ abort_duplicate_flag
        /\ job_exc = NoException
        /\ Calls("incr", "jobs.completed") = 1

\* C10, for the release payloads that name their repository and its owner
\* and whose default_branch is not null: job() returns, with NoTagName for
\* an absent tag_name, UnknownTagName for a release that is no dict, and
\* the sentinel actor for an absent author.
C10_AsStated ==
    (/\ JobEnded
     /\ queued_json_payload.DCS_event = "release"
     /\ HasOwnerAndName(queued_json_payload)
     /\ queued_json_payload.repository.default_branch # None) =>
        /\ jpc = "returned"
        /\ job_exc = NoException
        /\ (queued_json_payload.release.shape = "dict"
              /\ queued_json_payload.release.tag_name = Absent)
             => locals.tag_name = S("NoTagName")
        /\ queued_json_payload.release.shape = "list"
             => locals.tag_name = S("UnknownTagName")
        /\ (queued_json_payload.release.shape = "dict"
              /\ queued_json_payload.release.author = "absent")
             => locals.pusher_username = S("test")

\* process_webhook_job has resolved the commit of this job(): it got as far
\* as line 309.
Resolved ==
    /\ jpc \in {"except", "finish", "returned", "raised"}
    /\ ~ abort_duplicate_flag
    /\ locals.commit_type # Absent

\* The branch that a push payload names.
PushedBranch(payload) == SubSeq(payload.ref, Len(Ref(<<>>)) + 1, Len(payload.ref))

\* C11, for the payloads that name their repository and its owner and
\* whose default_branch is not null: a push of one commit to branch b that
\* the detector lets through resolves to id b, of kind defaultBranch when b
\* is the default branch and of kind branch otherwise, and its job() returns.
C11_AsStated ==
    (/\ JobEnded
     /\ ~ abort_duplicate_flag
     /\ queued_json_payload.DCS_event = "push"
     /\ Len(queued_json_payload.commits) = 1
     /\ HasOwnerAndName(queued_json_payload)
     /\ queued_json_payload.repository.default_branch # None) =>
        LET b == PushedBranch(queued_json_payload)
        IN  /\ locals.commit_id = b
            /\ locals.commit_type =
                 (IF b = queued_json_payload.repository.default_branch
                  THEN S("defaultBranch") ELSE S("branch"))
            /\ jpc = "returned"
            /\ job_exc = NoException

\* C12: once the commit is resolved, its kind is unknown exactly when its
\* id is None.
C12_AsStated ==
    Resolved => ((locals.commit_type = S("unknown")) <=> (locals.commit_id = None))

\* C13: when handle_catalog_release has been called, download_and_unzip_repo
\* has returned before it, with the snapshot directory in place.
C13_AsStated ==
    handled # <<>> => fpc \in {"returned", "done"}

\* C16: when process_webhook_job has returned, handle_catalog_release was
\* called exactly if commit_id is set, and "Nothing to process" was logged
\* exactly if it is not.
C16_AsStated ==
    (jpc \in {"finish", "returned"} /\ ~ abort_duplicate_flag) =>
        /\ (handled # <<>>) <=> Truthy(locals.commit_id)
        /\ (Calls("critical", "Nothing to process") = 1) <=> ~ Truthy(locals.commit_id)
        /\ Calls("critical", "Nothing to process") <= 1

\* What job() has called by line 353.
ReceivedCalls ==
    << Call("AppSettings.logger", "debug", "received a job"),
       Call("stats_client", "incr", "jobs.attempted") >>

\* C14: when the detector signals abort, job() never calls
\* process_webhook_job (nothing is resolved, no usage counter is updated,
\* handle_catalog_release is not invoked), no exception is raised, and the
\* next and only thing job() does is the completion step of lines 395-403
\* (timing, completion log, jobs.completed, close_logger), with the
\* descriptive name that the detector returned.
C14_AbortSkipsProcessing ==
    abort_duplicate_flag =>
        /\ jpc \in {"finish", "returned"}
        /\ locals = None
        /\ handled = <<>>
        /\ job_exc = NoException
        /\ job_descriptive_name # None
        /\ job_descriptive_name
             = check_for_forthcoming_pushes_in_queue(queued_json_payload, our_queue)[2]
        /\ jpc = "finish" => events = ReceivedCalls
        /\ jpc = "returned" =>
              \E under_two_seconds \in BOOLEAN :
                 events = ReceivedCalls \o CompletionCalls(under_two_seconds)

\* An aborted job() has returned after its completion step.
C14_Witness ==
    /\ jpc = "returned"
    /\ abort_duplicate_flag
    /\ Calls("incr", "jobs.completed") = 1
    /\ job_descriptive_name # None

\* C15: the detector returns True only for a single-commit push payload
\* and a queue holding a job with status 'queued' whose payload is a
\* single-commit push with the same first six "/"-delimited segments in
\* its commit URL; a queue of jobs with another status, of jobs that are
\* no push, of pushes of several commits and of pushes to another
\* repository gives False; and the call changes neither the queue nor the
\* payload of the current job or of a queued one.
C15_AbortOnlyForQueuedSamePush ==
    /\ [] ((jpc = "detected" /\ abort_duplicate_flag) =>
              /\ IsSinglePush(queued_json_payload)
              /\ Superseding(queued_json_payload, our_queue) # {})
    /\ [][/\ our_queue' = our_queue
          /\ queued_json_payload' = queued_json_payload]_vars

\* No abort for a single-commit push with two jobs in the queue: a started
\* single-commit push to the same repository, and a queued job that is a
\* release, a push of two commits or a push to another repository.
C15_Witness ==
    /\ jpc = "detected"
    /\ ~ abort_duplicate_flag
    /\ IsSinglePush(queued_json_payload)
    /\ Len(our_queue) = 2
    /\ \E i \in 1..2 :
          /\ our_queue[i].status = "started"
          /\ IsSinglePush(our_queue[i].args[1])
          /\ FirstSixSegments(our_queue[i].args[1].commits[1].url)
               = FirstSixSegments(queued_json_payload.commits[1].url)
    /\ \E i \in 1..2 :
          /\ our_queue[i].status = "queued"
          /\ \/ our_queue[i].args[1].DCS_event = "release"
             \/ Len(our_queue[i].args[1].commits) = 2
             \/ /\ IsSinglePush(our_queue[i].args[1])
                /\ FirstSixSegments(our_queue[i].args[1].commits[1].url)
                     # FirstSixSegments(queued_json_payload.commits[1].url)

\* Some pass of the while loop can still begin.
AttemptEnabled ==
    \/ ENABLED AttemptSucceeds
    \/ ENABLED AttemptHTTPError
    \/ ENABLED AttemptBadZipFile
    \/ ENABLED AttemptOtherError

Failures == {"HTTPError", "BadZipFile", "OtherError"}

\* C17: whatever the outcomes of the attempts, in any mix and order, the
\* loop makes at most MAX_TRIES = 4 attempts, as try_number counts the
\* failures of both classes; while it runs every attempt so far has
\* failed and fewer than 4 were made; it ends by returning after a
\* success, which is then the last attempt and the only success, or by
\* raising an exception of the class of the last attempt's failure; and
\* once it has ended no attempt follows.
C17_SharedCounterBoundsAttempts ==
    /\ Len(outcomes) <= MAX_TRIES
    /\ fpc = "loop" =>
          /\ Len(outcomes) < MAX_TRIES
          /\ try_number = Len(outcomes) + 1
          /\ \A i \in 1..Len(outcomes) : outcomes[i] \in Failures
    /\ fpc = "raised" =>
          /\ outcomes # <<>>
          /\ outcomes[Len(outcomes)] \in Failures
          /\ fetch_exc.class = outcomes[Len(outcomes)]
          /\ \A i \in 1..Len(outcomes) : outcomes[i] # "ok"
    /\ fpc \in {"returned", "done"} =>
          /\ outcomes # <<>>
          /\ outcomes[Len(outcomes)] = "ok"
          /\ \A i \in 1..(Len(outcomes) - 1) : outcomes[i] \in Failures
          /\ fetch_exc = NoFetchException
    /\ fpc # "loop" => ~ AttemptEnabled

\* Four attempts that failed in turn with BadZipFile and HTTPError: the
\* HTTPError of the fourth is raised.
C17_Witness ==
    /\ fpc = "raised"
    /\ outcomes = <<"BadZipFile", "HTTPError", "BadZipFile", "HTTPError">>
    /\ fetch_exc = [class |-> "HTTPError", try |-> 4]

\* C19: no download began while a file existed at repo_zip_file, as every
\* pass of the loop removes it first; and once download_and_unzip_repo has
\* returned, repo_zip_file exists exactly when prefix is not empty.
C19_NoStaleArchive ==
    /\ ~ stale_seen
    /\ fpc \in {"returned", "done"} => (zip_file = (prefix # ""))

\* In normal operation the archive of a success that followed a corrupt
\* archive, which was at the target path when the last pass began, is gone.
C19_Witness ==
    /\ fpc = "returned"
    /\ prefix = ""
    /\ Len(outcomes) >= 2
    /\ outcomes[Len(outcomes) - 1] = "BadZipFile"
    /\ ~ zip_file

\* The names of the folders directly under temp_folderpath.
TopLevelFolders == { e.name : e \in { x \in listing : x.isDir } }

\* C18: after a successful extraction the function returns the folder
\* named by the lowercase repository name under the extraction directory
\* when that folder is there; when it is not, the one top-level folder if
\* there is exactly one; and the extraction directory itself when there
\* is no top-level folder or there are several.
C18_FolderSelection ==
    fpc = "done" =>
        LET expected == Lower(fetched_repo_name)
        IN  /\ expected[1] \in TopLevelFolders =>
                  returned_folderpath = <<"temp_folderpath", "/", expected[1]>>
            /\ (expected[1] \notin TopLevelFolders /\ Cardinality(TopLevelFolders) = 1) =>
                  \E n \in TopLevelFolders :
                     returned_folderpath = <<"temp_folderpath", "/", n>>
            /\ (expected[1] \notin TopLevelFolders /\ Cardinality(TopLevelFolders) # 1) =>
                  returned_folderpath = <<"temp_folderpath">>

\* The repository was renamed: the archive of 'Proj' holds the one folder
\* 'other' and a file 'proj', and 'other' is returned.
C18_Witness ==
    /\ fpc = "done"
    /\ fetched_repo_name = <<"Proj">>
    /\ listing = { [name |-> "other", isDir |-> TRUE], [name |-> "proj", isDir |-> FALSE] }
    /\ returned_folderpath = <<"temp_folderpath", "/", "other">>

-----------------------------------------------------------------------------
(* several workers, each running job(), on one queue                       *)

Workers == 1..NumWorkers

FullRepository ==
    [shape |-> "dict", default_branch |-> S("master"), owner_username |-> S("bob"),
     name |-> S("proj")]

\* What is enqueued: single-commit pushes to one repository, and releases.
PoolPayloads ==
    { PushTo(S("master"), Payload("push", FullRepository, NoRelease,
                                  <<Commit(CommitUrl("https:", "proj", "c1"))>>)),
      Payload("release", FullRepository,
              [shape |-> "dict", tag_name |-> S("v1.0"),
               zipball_url |-> <<"https:", "/", "/", "host", "/", "x.zip">>,
               name |-> S("First release"), author |-> "dict",
               author_username |-> S("alice")],
              <<>>) }

\* A job as rq keeps it, with what its job() found: whether the detector
\* has returned and what it returned, which jobs our_queue held and how
\* many jobs had been enqueued when job() last read the queue.
NewJob(payload) ==
    [status |-> "queued", args |-> <<payload>>,
     returned |-> FALSE, abort_duplicate_flag |-> FALSE, job_descriptive_name |-> None,
     seen |-> {}, enqueued_then |-> 0]

Range(seq) == { seq[i] : i \in 1..Len(seq) }

\* our_queue.jobs (line 207): the waiting jobs, in the queue's order.
QueueJobs(jobs, queue) ==
    [i \in 1..Len(queue) |-> QueuedJob(jobs[queue[i]].status, jobs[queue[i]].args[1])]

\* Lines 202-204 with a test for several other entries.
ShouldScan_SeveralEntries(payload, len) == IsSinglePush(payload) /\ len > 1

\* Lines 202-204, with the len_our_queue of line 201.
ShouldScan(payload, len) == IsSinglePush(payload) /\ len # 0

\* The enqueue-job side puts a job for a webhook payload in the queue.
Enqueue ==
    /\ Len(rq_jobs) < MaxEnqueued
    /\ \E payload \in PoolPayloads :
          rq_jobs' = Append(rq_jobs, NewJob(payload))
    /\ rq_queue' = Append(rq_queue, Len(rq_jobs) + 1)
    /\ UNCHANGED <<workers, fetch_vars, job_vars>>

\* A worker that starts job() for the first job of the queue while the
\* job stays in the queue as a queued one.
WorkerTake_LeavesInQueue(w) ==
    /\ workers[w].pc = "idle"
    /\ rq_queue # <<>>
    /\ workers' = [workers EXCEPT ![w] = [pc |-> "len", job |-> Head(rq_queue),
                                          len_our_queue |-> 0]]
    /\ stats' = [stats EXCEPT !.attempted = @ + 1]
    /\ UNCHANGED <<rq_jobs, rq_queue>>
    /\ UNCHANGED <<fetch_vars, jpc, detect_vars, debug_mode_flag, len_our_queue, events,
                   locals, handled, job_exc, jobs_run, failed_queue>>

\* rq removes the first job from the queue and the worker starts job()
\* for it (lines 337, 341-343).
WorkerTake(w) ==
    /\ workers[w].pc = "idle"
    /\ rq_queue # <<>>
    /\ rq_queue' = Tail(rq_queue)
    /\ rq_jobs' = [rq_jobs EXCEPT ![Head(rq_queue)].status = "started"]
    /\ workers' = [workers EXCEPT ![w] = [pc |-> "len", job |-> Head(rq_queue),
                                          len_our_queue |-> 0]]
    /\ stats' = [stats EXCEPT !.attempted = @ + 1]
    /\ UNCHANGED <<fetch_vars, jpc, detect_vars, debug_mode_flag, len_our_queue, events,
                   locals, handled, job_exc, jobs_run, failed_queue>>

\* Lines 353-355 and 201-204: the length of the queue is read; without
\* other entries, or for a payload that is no single-commit push, the
\* detector returns (False, None) at line 220.
WorkerLen(w) ==
    /\ workers[w].pc = "len"
    /\ LET j == workers[w].job
           len == Len(rq_queue)
       IN  IF ShouldScan(rq_jobs[j].args[1], len)
           THEN /\ workers' = [workers EXCEPT ![w].pc = "scan", ![w].len_our_queue = len]
                /\ UNCHANGED rq_jobs
           ELSE /\ workers' = [workers EXCEPT ![w].pc = "process", ![w].len_our_queue = len]
                /\ rq_jobs' = [rq_jobs EXCEPT ![j].returned = TRUE,
                                              ![j].seen = Range(rq_queue),
                                              ![j].enqueued_then = Len(rq_jobs)]
    /\ UNCHANGED <<rq_queue, fetch_vars, job_vars>>

\* Lines 206-220 and 356: the jobs of the queue are read and scanned.
WorkerScan(w) ==
    /\ workers[w].pc = "scan"
    /\ LET j == workers[w].job
           my_url_bits == Split(rq_jobs[j].args[1].commits[1].url, "/")
           result == ScanQueue(QueueJobs(rq_jobs, rq_queue), 1, my_url_bits)
       IN  /\ rq_jobs' = [rq_jobs EXCEPT ![j].returned = TRUE,
                                         ![j].abort_duplicate_flag = result[1],
                                         ![j].job_descriptive_name = result[2],
                                         ![j].seen = Range(rq_queue),
                                         ![j].enqueued_then = Len(rq_jobs)]
           /\ workers' = [workers EXCEPT ![w].pc = IF result[1] THEN "finish" ELSE "process"]
    /\ UNCHANGED <<rq_queue, fetch_vars, job_vars>>

\* Lines 357-393: process_webhook_job returns, or raises and job() raises
\* its exception again, so that rq puts the job in its failed queue.
WorkerProcess(w) ==
    /\ workers[w].pc = "process"
    /\ LET j == workers[w].job
           left == process_webhook_job(rq_jobs[j].args[1])
       IN  IF left.exc = NoException
           THEN /\ rq_jobs' = [rq_jobs EXCEPT ![j].job_descriptive_name = left.value]
                /\ workers' = [workers EXCEPT ![w].pc = "finish"]
                /\ UNCHANGED failed_queue
           ELSE /\ rq_jobs' = [rq_jobs EXCEPT ![j].status = "failed"]
                /\ workers' = [workers EXCEPT ![w] = IdleWorker]
                /\ failed_queue' = failed_queue + 1
    /\ UNCHANGED <<rq_queue, fetch_vars, jpc, detect_vars, debug_mode_flag, len_our_queue,
                   stats, events, locals, handled, job_exc, jobs_run>>

\* Lines 395-403 without the incr of jobs.completed.
WorkerFinish_NoCompleted(w) ==
    /\ workers[w].pc = "finish"
    /\ rq_jobs' = [rq_jobs EXCEPT ![workers[w].job].status = "finished"]
    /\ workers' = [workers EXCEPT ![w] = IdleWorker]
    /\ stats' = [stats EXCEPT !.duration = @ + 1]
    /\ UNCHANGED <<rq_queue, fetch_vars, jpc, detect_vars, debug_mode_flag, len_our_queue,
                   events, locals, handled, job_exc, jobs_run, failed_queue>>

\* Lines 395-403: job() returns.
WorkerFinish(w) ==
    /\ workers[w].pc = "finish"
    /\ rq_jobs' = [rq_jobs EXCEPT ![workers[w].job].status = "finished"]
    /\ workers' = [workers EXCEPT ![w] = IdleWorker]
    /\ stats' = [stats EXCEPT !.duration = @ + 1, !.completed = @ + 1]
    /\ UNCHANGED <<rq_queue, fetch_vars, jpc, detect_vars, debug_mode_flag, len_our_queue,
                   events, locals, handled, job_exc, jobs_run, failed_queue>>

WorkersInit ==
    /\ FetchIdle
    /\ prefix = ""
    /\ debug_mode_flag = FALSE
    /\ jpc = "idle"
    /\ queued_json_payload = None
    /\ our_queue = <<>>
    /\ abort_duplicate_flag = FALSE
    /\ job_descriptive_name = None
    /\ WrapperIdle
    /\ PoolIdle

WorkersNext ==
    \/ Enqueue
    \/ \E w \in Workers : WorkerTake(w)
    \/ \E w \in Workers : WorkerLen(w)
    \/ \E w \in Workers : WorkerScan(w)
    \/ \E w \in Workers : WorkerProcess(w)
    \/ \E w \in Workers : WorkerFinish(w)

SpecWorkers == WorkersInit /\ [][WorkersNext]_vars

\* The detector of job a has returned False: a goes on to process_webhook_job.
Proceeded(a) == rq_jobs[a].returned /\ ~ rq_jobs[a].abort_duplicate_flag

\* Jobs a and b are two single-commit pushes to one repository.
SameRepositoryPushes(a, b) ==
    /\ a # b
    /\ IsSinglePush(rq_jobs[a].args[1])
    /\ IsSinglePush(rq_jobs[b].args[1])
    /\ FirstSixSegments(rq_jobs[a].args[1].commits[1].url)
         = FirstSixSegments(rq_jobs[b].args[1].commits[1].url)

\* C20: with several workers on one queue the scan is a snapshot. A job
\* that went on to processing had no single-commit push to its repository
\* in the queue when it read it: every such push was enqueued after that
\* read, or had been taken from the queue by a worker before it. A job
\* that was aborted did see a newer such push waiting. So two pushes to
\* one repository are both processed when the newer one is enqueued after
\* the scan of the older one, as the witness shows.
C20_RacySnapshot ==
    \A a \in 1..Len(rq_jobs) :
        /\ Proceeded(a) =>
              \A b \in 1..Len(rq_jobs) :
                 SameRepositoryPushes(a, b) =>
                    /\ b \notin rq_jobs[a].seen
                    /\ \/ b > rq_jobs[a].enqueued_then
                       \/ rq_jobs[b].status # "queued"
        /\ rq_jobs[a].abort_duplicate_flag =>
              \E b \in rq_jobs[a].seen : b > a /\ SameRepositoryPushes(a, b)

\* Two pushes to one repository are both being processed: the older one
\* scanned a queue that held another job, found no duplicate, and the
\* newer one was enqueued after that scan.
C20_Witness ==
    \E a \in 1..Len(rq_jobs), b \in 1..Len(rq_jobs) :
        /\ a < b
        /\ SameRepositoryPushes(a, b)
        /\ Proceeded(a)
        /\ Proceeded(b)
        /\ rq_jobs[a].seen # {}
        /\ b > rq_jobs[a].enqueued_then
        /\ \E v \in Workers, w \in Workers :
              /\ workers[v] = [pc |-> "process", job |-> a, len_our_queue |-> 1]
              /\ workers[w].pc = "process" /\ workers[w].job = b

\* The single-commit pushes enqueued so far to the repository of job a,
\* a itself included.
Burst(a) == {a} \cup { b \in 1..Len(rq_jobs) : SameRepositoryPushes(a, b) }

\* The job of the set that was enqueued, and so is dequeued, last.
Last(jobs) == CHOOSE b \in jobs : \A c \in jobs : c <= b

\* Job a is at process_webhook_job or has been through it.
AtOrPastProcessing(a) ==
    \/ \E w \in Workers : workers[w].job = a /\ workers[w].pc = "process"
    \/ rq_jobs[a].status = "failed"
    \/ /\ ~ rq_jobs[a].abort_duplicate_flag
       /\ \/ rq_jobs[a].status = "finished"
          \/ \E w \in Workers : workers[w].job = a /\ workers[w].pc = "finish"

\* C21: of the single-commit pushes to one repository that were put on
\* the queue, whatever the workers and their interleaving, the detector
\* never aborts all: a job is aborted only for a newer push of its burst
\* that it saw waiting, so the last of the burst is never aborted, and a
\* job whose detector has returned after reading a queue without another
\* push to its repository goes on to process_webhook_job.
C21_BurstNeverFullyDropped ==
    \A a \in 1..Len(rq_jobs) :
        IsSinglePush(rq_jobs[a].args[1]) =>
            LET burst == Burst(a)
            IN  /\ rq_jobs[a].abort_duplicate_flag =>
                      \E b \in burst : b > a /\ b \in rq_jobs[a].seen
                /\ ~ rq_jobs[Last(burst)].abort_duplicate_flag
                /\ (\A b \in burst : rq_jobs[b].returned) =>
                      \E b \in burst : Proceeded(b) /\ AtOrPastProcessing(b)
                /\ (rq_jobs[a].returned /\ rq_jobs[a].seen \cap burst = {}) =>
                      Proceeded(a) /\ AtOrPastProcessing(a)

\* A burst of three pushes: the first two were aborted, each for a newer
\* one it saw waiting, and the last one is at process_webhook_job.
C21_Witness ==
    /\ Len(rq_jobs) = 3
    /\ Burst(1) = {1, 2, 3}
    /\ rq_jobs[1].abort_duplicate_flag
    /\ rq_jobs[2].abort_duplicate_flag
    /\ Proceeded(3)
    /\ \E w \in Workers : workers[w].job = 3 /\ workers[w].pc = "process"

\* The jobs for which job() was called, and those whose job() ended.
Invoked == { a \in 1..Len(rq_jobs) : rq_jobs[a].status # "queued" }

Ended(status) == { a \in 1..Len(rq_jobs) : rq_jobs[a].status = status }

\* C22: jobs.attempted counts the calls of job(), each once, and a call
\* is counted before its job() reads the queue; jobs.completed is never
\* above jobs.attempted; jobs.completed counts the calls that returned, and
\* when no job() is running jobs.attempted is jobs.completed plus the
\* number of calls that raised their exception to rq.
C22_AttemptedAndCompleted ==
    /\ stats.attempted = Cardinality(Invoked)
    /\ \A w \in Workers :
          workers[w].pc # "idle" => workers[w].job \in Invoked
    /\ \A a \in 1..Len(rq_jobs) :
          (rq_jobs[a].returned \/ rq_jobs[a].seen # {}) => a \in Invoked
    /\ stats.completed <= stats.attempted
    /\ stats.completed = Cardinality(Ended("finished"))
    /\ failed_queue = Cardinality(Ended("failed"))
    /\ stats.attempted
         = stats.completed + failed_queue
           + Cardinality({ w \in Workers : workers[w].pc # "idle" })
    /\ (\A w \in Workers : workers[w].pc = "idle") =>
          stats.attempted = stats.completed + failed_queue

\* Three calls of job() have ended: one was aborted and returned, one
\* returned after process_webhook_job, one raised.
C22_Witness ==
    /\ \A w \in Workers : workers[w].pc = "idle"
    /\ rq_queue = <<>>
    /\ stats.attempted = 3
    /\ stats.completed = 2
    /\ failed_queue = 1
    /\ \E a \in 1..Len(rq_jobs) : rq_jobs[a].abort_duplicate_flag
    /\ \E a \in 1..Len(rq_jobs) : Proceeded(a) /\ rq_jobs[a].status = "finished"

=============================================================================
